---- MODULE Spec2Model ----
(***************************************************************************)
(* The events extension of remirror (EventsExtension, kept in              *)
(* src/docs/concepts/extra-attributes.md lines 97-697): the handler keys   *)
(* and their dispatch policy, onView's auto-registration, handleClickOn    *)
(* with its per-event dedup map, the mousedown/mouseover interaction       *)
(* flags, and createMouseEventHandler with the node list it builds.        *)
(***************************************************************************)
EXTENDS Integers, Sequences, FiniteSets, TLC

(***************************************************************************)
(* Bounds of the model.                                                    *)
(***************************************************************************)
MaxHandlers == 2     \* handlers ever given to addHandler
MaxPriority == 2     \* priorities are 1..MaxPriority
MaxEvents == 2       \* raw click events created in one behaviour
MaxListeners == 2    \* one-shot page mouseup listeners pending at once
MaxExtensions == 2   \* extensions in the store that onView enumerates

(***************************************************************************)
(* The document snapshot and ProseMirror's resolved positions.  A document *)
(* is a table of nodes, node 1 being the root (`doc`).  A text node has    *)
(* len > 0, a leaf (image, rule) has leaf = TRUE, every other node has     *)
(* an opening and a closing token around its children.                     *)
(***************************************************************************)
Root == 1

\* A text node of n characters that carries the marks ms.
MarkedText(n, ms) ==
  [type |-> "text", kids |-> <<>>, len |-> n, leaf |-> FALSE, marks |-> ms]

TextNode(n) == MarkedText(n, {})
LeafNode(t) == [type |-> t, kids |-> <<>>, len |-> 0, leaf |-> TRUE, marks |-> {}]
Branch(t, ks) == [type |-> t, kids |-> ks, len |-> 0, leaf |-> FALSE, marks |-> {}]

\* doc(blockquote(paragraph("ab")), paragraph())
DocNested ==
  <<Branch("doc", <<2, 5>>), Branch("blockquote", <<3>>),
    Branch("paragraph", <<4>>), TextNode(2), Branch("paragraph", <<>>)>>

\* doc(paragraph(bold("a"), image, "b"), horizontalRule)
DocInline ==
  <<Branch("doc", <<2, 6>>), Branch("paragraph", <<3, 4, 5>>),
    MarkedText(1, {"bold"}), LeafNode("image"), TextNode(1),
    LeafNode("horizontalRule")>>

Docs == <<DocNested, DocInline>>

RECURSIVE NodeSize(_, _)
RECURSIVE SizeOfAll(_, _)
\* Node.nodeSize: a text node's length, 1 for a leaf, content + 2 otherwise.
NodeSize(d, n) ==
  IF d[n].len > 0 THEN d[n].len
  ELSE IF d[n].leaf THEN 1
  ELSE 2 + SizeOfAll(d, d[n].kids)

\* Fragment.size: the sum of the children's sizes.
SizeOfAll(d, ks) ==
  IF ks = <<>> THEN 0 ELSE NodeSize(d, Head(ks)) + SizeOfAll(d, Tail(ks))

ContentSize(d, n) == SizeOfAll(d, d[n].kids)

DocSize(d) == ContentSize(d, Root)

RECURSIVE FindIndexFrom(_, _, _, _, _)
\* Fragment.findIndex(pos) with round = -1: the (0-based) index of the child
\* that holds pos, or of the child after it when pos is that child's end.
FindIndexFrom(d, ks, i, curPos, pos) ==
  LET end == curPos + NodeSize(d, ks[i + 1])
  IN IF end >= pos
     THEN IF end = pos THEN [index |-> i + 1, offset |-> end]
          ELSE [index |-> i, offset |-> curPos]
     ELSE FindIndexFrom(d, ks, i + 1, end, pos)

FindIndex(d, n, pos) ==
  IF pos = 0 THEN [index |-> 0, offset |-> 0]
  ELSE IF pos = ContentSize(d, n) THEN [index |-> Len(d[n].kids), offset |-> pos]
  ELSE FindIndexFrom(d, d[n].kids, 0, 0, pos)

RECURSIVE ResolvePath(_, _, _, _)
\* ResolvedPos.resolve: one entry (node, index, start offset) per depth.
ResolvePath(d, n, parentOffset, start) ==
  LET fi == FindIndex(d, n, parentOffset)
      rem == parentOffset - fi.offset
      entry == [node |-> n, index |-> fi.index, pos |-> start + fi.offset]
  IN IF rem = 0 THEN <<entry>>
     ELSE LET child == d[n].kids[fi.index + 1]
          IN IF d[child].len > 0 THEN <<entry>>
             ELSE <<entry>> \o ResolvePath(d, child, rem - 1, start + fi.offset + 1)

\* doc.resolve(pos)
Resolve(d, pos) == [pos |-> pos, path |-> ResolvePath(d, Root, pos, 0)]

\* $pos.depth
Depth(rp) == Len(rp.path) - 1

\* The value of a lookup that finds nothing (`undefined`).
Undefined == 0

\* $pos.node(depth): path[depth * 3], undefined past the resolved depth.
NodeAt(rp, depth) ==
  IF depth \in 0..Depth(rp) THEN rp.path[depth + 1].node ELSE Undefined

\* $pos.before(depth), for depth >= 1.
Before(rp, depth) ==
  IF depth = Depth(rp) + 1 THEN rp.pos ELSE rp.path[depth].pos

\* $pos.nodeAfter: the child after the position (the rest of a text node
\* when the position is inside it), null at the end of the parent.
NodeAfter(d, rp) ==
  LET top == rp.path[Len(rp.path)]
  IN IF top.index = Len(d[top.node].kids) THEN Undefined
     ELSE d[top.node].kids[top.index + 1]

\* The parent of node n in document d (Undefined for the root).
ParentOf(d, n) ==
  IF \E p \in 1..Len(d) : \E i \in 1..Len(d[p].kids) : d[p].kids[i] = n
  THEN CHOOSE p \in 1..Len(d) : \E i \in 1..Len(d[p].kids) : d[p].kids[i] = n
  ELSE Undefined

(***************************************************************************)
(* createMouseEventHandler: the node list of a hover/contextmenu payload.  *)
(***************************************************************************)
\* A range that leaves its end out: start, start-1, .., end+1.
RangeDownExclusive(start, end) == [i \in 1..(start - end) |-> start + 1 - i]

\* range(start, end) of @remirror/core for start >= end: start, start-1, .., end.
RangeDown(start, end) == [i \in 1..(start - end + 1) |-> start + 1 - i]

\* One entry of `nodes`, for the loop index `index`.
NodeEntry(d, rp, index) ==
  [node |-> IF index > Depth(rp) /\ NodeAfter(d, rp) # Undefined
            THEN NodeAfter(d, rp) ELSE NodeAt(rp, index),
   pos |-> Before(rp, index)]

\* The loop `for (const index of range(currentNodeDepth, 1))`, run only
\* when inside > -1.
BuildNodes(d, pos, inside) ==
  LET rp == Resolve(d, pos)
      currentNodeDepth == Depth(rp) + 1
      idx == RangeDown(currentNodeDepth, 1)
  IN IF inside > -1
     THEN [i \in 1..Len(idx) |-> NodeEntry(d, rp, idx[i])]
     ELSE <<>>

\* The absolute position before node n (-1 for the root, which has none).
RECURSIVE NodeStart(_, _)
NodeStart(d, n) ==
  IF n = Root THEN -1
  ELSE LET p == ParentOf(d, n)
           i == CHOOSE j \in 1..Len(d[p].kids) : d[p].kids[j] = n
       IN NodeStart(d, p) + 1 + SizeOfAll(d, SubSeq(d[p].kids, 1, i - 1))

\* The nodes from n up to the root, n first.
RECURSIVE PathToRoot(_, _)
PathToRoot(d, n) ==
  IF n = Root THEN <<Root>> ELSE <<n>> \o PathToRoot(d, ParentOf(d, n))

(***************************************************************************)
(* The schema, and the marks at a resolved position.                       *)
(***************************************************************************)
\* state.schema.nodes and state.schema.marks: the type names that exist.
SchemaNodes ==
  {"doc", "blockquote", "paragraph", "text", "image", "horizontalRule"}

SchemaMarks == {"bold", "italic"}

\* $pos.marks(): the marks of the content that starts at the position.
MarksAt(d, rp) ==
  IF NodeAfter(d, rp) = Undefined THEN {} ELSE d[NodeAfter(d, rp)].marks

\* The children of node p, from child i on in direction dir (-1, +1), that
\* carry mark m without a gap: how far the run of m reaches.
RECURSIVE RunEnd(_, _, _, _, _)
RunEnd(d, p, i, dir, m) ==
  LET j == i + dir
  IN IF j \in 1..Len(d[p].kids) /\ m \in d[d[p].kids[j]].marks
     THEN RunEnd(d, p, j, dir, m) ELSE i

\* getMarkRange($pos, type): the maximal run of siblings around the
\* position that carry the mark, as [mark, from, to].
GetMarkRange(d, rp, m) ==
  LET top == rp.path[Len(rp.path)]
      p == top.node
      i == top.index + 1
      lo == RunEnd(d, p, i, -1, m)
      hi == RunEnd(d, p, i, 1, m)
  IN [mark |-> m,
      from |-> NodeStart(d, d[p].kids[lo]),
      to |-> NodeStart(d, d[p].kids[hi]) + NodeSize(d, d[p].kids[hi])]

\* Whether getMarkRange($pos, type) finds a range: the content at the
\* position carries the mark.
HasMarkRange(d, rp, m) ==
  NodeAfter(d, rp) # Undefined /\ m \in d[NodeAfter(d, rp)].marks

\* The loop over $pos.marks() that pushes the range of every mark that has
\* one: the ranges, as a set (one per mark type).
ComputeMarkRanges(d, pos) ==
  LET rp == Resolve(d, pos)
  IN {GetMarkRange(d, rp, m) : m \in {x \in MarksAt(d, rp) : HasMarkRange(d, rp, x)}}

\* The same, looked up in a table computed once per document and position.
MarkRangeTable ==
  UNION {{<<Docs[i], p, ComputeMarkRanges(Docs[i], p)>> : p \in 0..DocSize(Docs[i])} :
           i \in DOMAIN Docs}

MarkRangesAt(d, pos) ==
  (CHOOSE e \in MarkRangeTable : e[1] = d /\ e[2] = pos)[3]

(***************************************************************************)
(* Handler keys and their options (the @extension decorator).              *)
(***************************************************************************)
\* The keys of EventsOptions.
EventKinds ==
  {"blur", "focus", "mousedown", "mouseup", "mouseenter", "mouseleave",
   "click", "clickMark", "contextmenu", "hover"}

\* handlerKeys
HandlerKeys ==
  {"blur", "focus", "mousedown", "mouseup", "mouseenter", "mouseleave",
   "click", "clickMark", "contextmenu"}

\* handlerKeyOptions without `click: { earlyReturnValue: true }`.
EarlyReturnKeysNoClick ==
  {"blur", "focus", "mousedown", "mouseleave", "mouseup"}

\* handlerKeyOptions: the keys with earlyReturnValue: true
EarlyReturnKeys ==
  {"blur", "focus", "mousedown", "mouseleave", "mouseup", "click"}

ClickKinds == {"click", "clickMark"}
PointerKinds == {"mousedown", "mouseup", "mouseenter", "mouseleave"}
MouseKinds == {"hover", "contextmenu"}
FocusKinds == {"focus", "blur"}

VARIABLES
  viewReady,   \* onView has run
  handlers,    \* the registry: handler key -> chain of [id, prio]
  requested,   \* per event kind, how many handlers were given to addHandler
  eventMap,    \* the raw events handleClickOn has stored in its WeakMap
  docId,       \* the document snapshot (an index of Docs)
  click,       \* the host's latest click: raw event, position, nodes still to
               \* notify, and how often it was notified and ran each chain
  mousedown,   \* this.mousedown
  mouseover,   \* this.mouseover
  listeners,   \* pending one-shot mouseup listeners on the page
  throwers,    \* the registered handlers that throw when invoked: [kind, id]
  last         \* the last operation: its inputs and what it did

vars ==
  <<viewReady, handlers, requested, eventMap, docId, click, mousedown,
    mouseover, listeners, throwers, last>>

(***************************************************************************)
(* The handler registry: for every handler key the chain of registered     *)
(* handlers, kept in ascending priority, ties in registration order.       *)
(***************************************************************************)
Priorities == 1..MaxPriority

\* The priority addHandler uses when none is given.
DefaultPriority == 2

EmptyRegistry == [k \in HandlerKeys |-> <<>>]

\* The chain with handler h put after every handler of priority <= its own.
InsertByPriority(chain, h) ==
  LET k == Cardinality({i \in 1..Len(chain) : chain[i].prio <= h.prio})
  IN SubSeq(chain, 1, k) \o <<h>> \o SubSeq(chain, k + 1, Len(chain))

\* addHandler(kind, handler, prio): only a handler key has a chain to join.
AddHandlerTo(hs, kind, id, prio) ==
  IF kind \in HandlerKeys
  THEN [hs EXCEPT ![kind] = InsertByPriority(@, [id |-> id, prio |-> prio])]
  ELSE hs

\* The index of the first handler of the chain that returns true (0: none).
FirstTrue(rets) ==
  IF \E i \in DOMAIN rets : rets[i]
  THEN CHOOSE i \in DOMAIN rets : rets[i] /\ \A j \in 1..(i - 1) : ~rets[j]
  ELSE 0

\* How many handlers of a chain are invoked when they return `rets`.
InvokedCount(kind, rets) ==
  IF kind \in EarlyReturnKeys /\ FirstTrue(rets) > 0
  THEN FirstTrue(rets) ELSE Len(rets)

\* this.options[kind](...): the handlers invoked, in order, what each
\* returned and the value of the call.  A key that is no handler key has no
\* chain behind it: the call faults.
\* A handler that throws ends an early-return chain; in a run-all
\* chain the handlers after it still run; either way the call then throws to
\* its caller instead of returning a value.
CallChain(hs, kind, rets) ==
  IF kind \notin HandlerKeys
  THEN [invoked |-> <<>>, returns |-> <<>>, result |-> FALSE, fault |-> TRUE,
        thrown |-> FALSE]
  ELSE IF throwers = {}
  THEN LET n == InvokedCount(kind, rets)
       IN [invoked |-> [i \in 1..n |-> hs[kind][i].id],
           returns |-> [i \in 1..n |-> rets[i]],
           result |-> \E i \in 1..n : rets[i],
           fault |-> FALSE,
           thrown |-> FALSE]
  ELSE LET throws == [i \in 1..Len(rets) |->
                        [kind |-> kind, id |-> hs[kind][i].id] \in throwers]
           n == InvokedCount(kind, [i \in 1..Len(rets) |-> rets[i] \/ throws[i]])
           thrown == \E i \in 1..n : throws[i]
       IN [invoked |-> [i \in 1..n |-> hs[kind][i].id],
           returns |-> [i \in 1..n |-> rets[i] /\ ~throws[i]],
           result |-> ~thrown /\ \E i \in 1..n : rets[i],
           fault |-> FALSE,
           thrown |-> thrown]

\* The return values the handlers of a chain may give in one call.
RetChoices(hs, kind) ==
  IF kind \in HandlerKeys THEN [1..Len(hs[kind]) -> BOOLEAN] ELSE {<<>>}

NoClick ==
  [event |-> 0, target |-> 0, pos |-> -1, path |-> <<>>, depth |-> 0, notified |-> 0,
   markRuns |-> 0, clickRuns |-> 0]

\* What a call of a payload's getNode or getMark gave: nothing asked yet,
\* a fault ("lookup": the invariant on the type; "type": a TypeError), no
\* match, or the match.
NoQuery ==
  [fn |-> "none", by |-> "none", type |-> "none", outcome |-> "none",
   error |-> "none", node |-> 0, pos |-> -1, from |-> -1, to |-> -1]

\* The type names the handlers ask for: one that exists and one that does
\* not, for nodes and for marks.
QueriedNodeTypes == {"paragraph", "heading"}

QueriedMarkTypes == {"bold", "underline"}

\* What the handler `by` got from calling fn(type), r being the call's value.
Answer(fn, by, type, r) ==
  [fn |-> fn, by |-> by, type |-> type, outcome |-> r.outcome,
   error |-> IF r.outcome = "fault" THEN r.error ELSE "none",
   node |-> IF r.outcome = "match" /\ fn = "getNode" THEN r.node ELSE 0,
   pos |-> IF r.outcome = "match" /\ fn = "getNode" THEN r.pos ELSE -1,
   from |-> IF r.outcome = "match" /\ fn = "getMark" THEN r.range.from ELSE -1,
   to |-> IF r.outcome = "match" /\ fn = "getMark" THEN r.range.to ELSE -1]

NoLast ==
  [op |-> "init", kind |-> "none", event |-> 0, direct |-> FALSE, node |-> 0,
   nodePos |-> -1, pos |-> -1, inside |-> -1, found |-> FALSE,
   markRun |-> FALSE, markInvoked |-> <<>>, markReturns |-> <<>>,
   clickRun |-> FALSE, invoked |-> <<>>, returns |-> <<>>, result |-> FALSE,
   prevented |-> FALSE, fault |-> FALSE, nodes |-> <<>>, hovering |-> FALSE,
   refresh |-> 0, attached |-> FALSE, exclude |-> FALSE, config |-> <<>>,
   added |-> <<>>, prio |-> 0, marks |-> {}, noop |-> FALSE, query |-> NoQuery,
   thrown |-> FALSE, order |-> <<>>]

Doc == Docs[docId]

Init ==
  /\ viewReady = FALSE
  /\ handlers = EmptyRegistry
  /\ requested = [k \in EventKinds |-> 0]
  /\ eventMap = {}
  /\ docId \in 1..Len(Docs)
  /\ click = NoClick
  /\ mousedown = FALSE
  /\ mouseover = FALSE
  /\ listeners = 0
  /\ throwers = {}
  /\ last = NoLast

\* No click is being bubbled by the host: dispatch is synchronous, so no
\* other raw event is delivered between the notifications of one click.
Idle == click.path = <<>>

RECURSIVE SumOver(_, _)
SumOver(f, S) ==
  IF S = {} THEN 0
  ELSE LET k == CHOOSE k \in S : TRUE IN f[k] + SumOver(f, S \ {k})

TotalRequested == SumOver(requested, EventKinds)

(***************************************************************************)
(* onView: auto-registration of the handlers extensions expose.            *)
(***************************************************************************)
\* What createEventHandlers of one extension may return: its keys, in order.
ExtKeySeqs(K) ==
  {ks \in UNION {[1..n -> K] : n \in 0..MaxHandlers} :
     \A i, j \in DOMAIN ks : i # j => ks[i] # ks[j]}

\* An extension of the store: whether it has createEventHandlers, its
\* options.exclude.clickHandler flag, and the keys createEventHandlers returns.
ExtConfigs(K) ==
  {[method |-> FALSE, exclude |-> x, keys |-> <<>>] : x \in BOOLEAN}
  \cup {[method |-> TRUE, exclude |-> x, keys |-> ks] :
          x \in BOOLEAN, ks \in ExtKeySeqs(K)}

RECURSIVE KeysIn(_)
KeysIn(exts) ==
  IF exts = <<>> THEN 0 ELSE Len(Head(exts).keys) + KeysIn(Tail(exts))

\* The extension lists of the store, of at most MaxHandlers handlers in all.
ExtLists(K) ==
  {exts \in UNION {[1..n -> ExtConfigs(K)] : n \in 0..MaxExtensions} :
     KeysIn(exts) <= MaxHandlers}

\* The test that makes the loop `continue` past an extension.
Skipped(ext) == ~ext.method \/ ext.exclude

RECURSIVE OnViewEntries(_, _)
\* The addHandler calls of the loop over this.store.extensions, from
\* extension i on.
OnViewEntries(exts, i) ==
  IF i > Len(exts) THEN <<>>
  ELSE (IF Skipped(exts[i]) THEN <<>>
        ELSE [j \in 1..Len(exts[i].keys) |-> [owner |-> i, kind |-> exts[i].keys[j]]])
       \o OnViewEntries(exts, i + 1)

\* onView returns at once when managerSettings.exclude.clickHandler is set.
OnViewCalls(exclude, exts) ==
  IF exclude THEN <<>> ELSE OnViewEntries(exts, 1)

RECURSIVE RegisterAll(_, _)
\* The addHandler calls made one after the other on registry reg.
RegisterAll(reg, calls) ==
  IF calls = <<>> THEN reg
  ELSE LET c == Head(calls)
           id == reg.req[c.kind] + 1
       IN RegisterAll(
            [hs |-> AddHandlerTo(reg.hs, c.kind, id, DefaultPriority),
             req |-> [reg.req EXCEPT ![c.kind] = id],
             added |-> Append(reg.added, [kind |-> c.kind, id |-> id, owner |-> c.owner])],
            Tail(calls))

OnViewOver(K) ==
  /\ ~viewReady
  /\ \E exclude \in BOOLEAN, exts \in ExtLists(K) :
       LET reg == RegisterAll([hs |-> handlers, req |-> requested, added |-> <<>>],
                              OnViewCalls(exclude, exts))
       IN /\ handlers' = reg.hs
          /\ requested' = reg.req
          /\ last' = [NoLast EXCEPT !.op = "onView", !.exclude = exclude,
                                    !.config = exts, !.added = reg.added]
  /\ viewReady' = TRUE
  /\ UNCHANGED <<eventMap, docId, click, mousedown, mouseover, listeners,
                 throwers>>

\* extension.addHandler(kind, handler, prio), called by the editor's user.
AddHandlerOver(K) ==
  /\ viewReady
  /\ Idle
  /\ TotalRequested < MaxHandlers
  /\ \E kind \in K, prio \in Priorities :
       LET id == requested[kind] + 1
       IN /\ handlers' = AddHandlerTo(handlers, kind, id, prio)
          /\ requested' = [requested EXCEPT ![kind] = id]
          /\ last' = [NoLast EXCEPT !.op = "addHandler", !.kind = kind, !.prio = prio,
                                    !.added = <<[kind |-> kind, id |-> id, owner |-> 0]>>]
  /\ UNCHANGED <<viewReady, eventMap, docId, click, mousedown, mouseover, listeners,
                 throwers>>

\* extension.addHandler(kind, handler, prio) with a handler that throws
\* whenever it is invoked.
AddThrowingHandlerOver(K) ==
  /\ viewReady
  /\ Idle
  /\ TotalRequested < MaxHandlers
  /\ \E kind \in K, prio \in Priorities :
       LET id == requested[kind] + 1
       IN /\ handlers' = AddHandlerTo(handlers, kind, id, prio)
          /\ requested' = [requested EXCEPT ![kind] = id]
          /\ throwers' = throwers \cup {[kind |-> kind, id |-> id]}
          /\ last' = [NoLast EXCEPT !.op = "addHandler", !.kind = kind, !.prio = prio,
                                    !.added = <<[kind |-> kind, id |-> id, owner |-> 0]>>]
  /\ UNCHANGED <<viewReady, eventMap, docId, click, mousedown, mouseover, listeners>>

(***************************************************************************)
(* handleClickOn.                                                          *)
(***************************************************************************)
\* A dedup flag shared by all raw events instead of one entry per event.
HandledShared(map, event) == map # {}

\* const handled = eventMap.has(event)
Handled(map, event) == event \in map

\* eventMap.set(event, true)
StoreEvent(map, event) == map \cup {event}

\* The value of the click chain alone, the clickMark value dropped.
ClickReturnClickOnly(clickResult, returnValue) == clickResult

\* return this.options.click(event, clickState) || returnValue
ClickReturn(clickResult, returnValue) == clickResult \/ returnValue

\* The `direct` field of the click state.
ClickDirect(direct) == direct

\* createClickMarkState that returns early on every notification.
CreateClickMarkStateEmpty(d, pos, handled) ==
  [markRanges |-> {}, noop |-> TRUE]

\* createClickMarkState: the mark ranges at the clicked position, or, when
\* the event was handled before, no range and getMark = noop.
CreateClickMarkState(d, pos, handled) ==
  [markRanges |-> IF handled THEN {} ELSE MarkRangesAt(d, pos),
   noop |-> handled]

\* The outcome of marks.find / markRanges.find for an existing mark type.
FindMark(ranges, markType) ==
  IF \E r \in ranges : r.mark = markType
  THEN [outcome |-> "match", range |-> CHOOSE r \in ranges : r.mark = markType]
  ELSE [outcome |-> "nothing"]

\* clickState.getMark(markType): noop when the event was handled before,
\* else the invariant on the type and the search of markRanges.
ClickGetMark(ranges, noop, markType) ==
  IF noop THEN [outcome |-> "nothing"]
  ELSE IF markType \notin SchemaMarks THEN [outcome |-> "fault", error |-> "lookup"]
  ELSE FindMark(ranges, markType)

\* clickState.getNode(nodeType): the invariant on the type, then the
\* notified node when it is of that type.
ClickGetNode(d, node, nodePos, nodeType) ==
  IF nodeType \notin SchemaNodes THEN [outcome |-> "fault", error |-> "lookup"]
  ELSE IF d[node].type = nodeType
       THEN [outcome |-> "match", node |-> node, pos |-> nodePos]
       ELSE [outcome |-> "nothing"]

NoCall ==
  [invoked |-> <<>>, returns |-> <<>>, result |-> FALSE, fault |-> FALSE,
   thrown |-> FALSE]

\* The click chain skipped, like the clickMark chain, once the event is stored.
RunsClickOnce(handled) == ~handled

\* Whether handleClickOn runs the click chain on this notification: it
\* does on every one, handled or not.
RunsClick(handled) == TRUE

\* A throw of the clickMark chain (line 311) leaves handleClickOn at once:
\* the event is not stored and the click chain is not called.  The host
\* then either goes on to the next ancestor or gives the click up.
HandleClickOn(event, pos, node, nodePos, direct, rest) ==
  \E mrets \in RetChoices(handlers, "clickMark"), crets \in RetChoices(handlers, "click") :
    LET handled == Handled(eventMap, event)
        mark == IF ~handled THEN CallChain(handlers, "clickMark", mrets) ELSE NoCall
        markThrown == throwers # {} /\ mark.thrown
        returnValue == mark.result
        clk == IF RunsClick(handled) /\ ~markThrown
               THEN CallChain(handlers, "click", crets) ELSE NoCall
        baseState == CreateClickMarkState(Doc, pos, handled)
        thrown == throwers # {} /\ (mark.thrown \/ clk.thrown)
    IN \E goesOn \in (IF thrown THEN BOOLEAN ELSE {TRUE}) :
       /\ eventMap' = IF markThrown THEN eventMap ELSE StoreEvent(eventMap, event)
       /\ click' = [event |-> event, pos |-> pos,
                     path |-> IF goesOn THEN rest ELSE <<>>,
                     target |-> IF direct THEN node ELSE click.target,
                     depth |-> IF direct THEN Len(rest) + 1 ELSE click.depth,
                     notified |-> (IF direct THEN 0 ELSE click.notified) + 1,
                     markRuns |-> (IF direct THEN 0 ELSE click.markRuns)
                                  + (IF handled THEN 0 ELSE 1),
                     clickRuns |-> (IF direct THEN 0 ELSE click.clickRuns)
                                   + (IF RunsClick(handled) /\ ~markThrown
                                      THEN 1 ELSE 0)]
       /\ last' = [NoLast EXCEPT !.op = "handleClickOn", !.kind = "click",
                     !.event = event, !.pos = pos, !.node = node, !.nodePos = nodePos,
                     !.direct = ClickDirect(direct), !.markRun = ~handled,
                     !.markInvoked = mark.invoked, !.markReturns = mark.returns,
                     !.clickRun = RunsClick(handled) /\ ~markThrown,
                     !.thrown = thrown,
                     !.order = (IF ~handled THEN <<"clickMark">> ELSE <<>>)
                               \o (IF RunsClick(handled) /\ ~markThrown
                                   THEN <<"click">> ELSE <<>>),
                     !.invoked = clk.invoked, !.returns = clk.returns,
                     !.result = ~thrown /\ ClickReturn(clk.result, returnValue),
                     !.marks = baseState.markRanges, !.noop = baseState.noop]
       /\ UNCHANGED <<viewReady, handlers, requested, docId, mousedown, mouseover, listeners,
                 throwers>>

\* The raw events created so far: the host numbers them as they come.
EventsUsed == click.event

\* The host view delivers a new click: the notification of the directly
\* clicked node, direct = true.
ClickFirst ==
  /\ viewReady
  /\ Idle
  /\ EventsUsed < MaxEvents
  /\ \E n \in 1..Len(Doc) :
       LET path == PathToRoot(Doc, n)
           pos == IF n = Root THEN 0 ELSE NodeStart(Doc, n)
       IN HandleClickOn(EventsUsed + 1, pos, n, NodeStart(Doc, n), TRUE, Tail(path))

\* The host view notifies the next ancestor of the clicked node, direct = false.
ClickBubble ==
  /\ ~Idle
  /\ LET n == Head(click.path)
     IN HandleClickOn(click.event, click.pos, n, NodeStart(Doc, n), FALSE, Tail(click.path))

\* A handler invoked by the last click notification calls getNode or
\* getMark of the state it was given: clickMark handlers have getMark, click
\* handlers have both.
ClickQuery ==
  /\ last.op = "handleClickOn"
  /\ last.query = NoQuery
  /\ \/ /\ last.invoked # <<>>
        /\ \E t \in QueriedNodeTypes :
             last' = [last EXCEPT !.query =
                        Answer("getNode", "click", t,
                               ClickGetNode(Doc, last.node, last.nodePos, t))]
     \/ \E by \in {"clickMark", "click"}, t \in QueriedMarkTypes :
          /\ (IF by = "click" THEN last.invoked ELSE last.markInvoked) # <<>>
          /\ last' = [last EXCEPT !.query =
                        Answer("getMark", by, t,
                               ClickGetMark(last.marks, last.noop, t))]
  /\ UNCHANGED <<viewReady, handlers, requested, eventMap, docId, click,
                 mousedown, mouseover, listeners, throwers>>

(***************************************************************************)
(* handleDOMEvents: focus, blur and the interaction flags.                 *)
(***************************************************************************)
\* A focus or blur handler that takes the pointer to be over the editor.
PlainDispatchPointerOver(op, kind) ==
  /\ viewReady
  /\ Idle
  /\ mouseover' = TRUE
  /\ \E rets \in RetChoices(handlers, kind) :
       LET call == CallChain(handlers, kind, rets)
       IN last' = [NoLast EXCEPT !.op = op, !.kind = kind, !.invoked = call.invoked,
                                 !.returns = call.returns, !.result = call.result,
                                 !.fault = call.fault, !.thrown = call.thrown]
  /\ UNCHANGED <<viewReady, handlers, requested, eventMap, docId, click,
                 mousedown, listeners, throwers>>

\* A handler of handleDOMEvents that only calls its chain.
PlainDispatch(op, kind) ==
  /\ viewReady
  /\ Idle
  /\ \E rets \in RetChoices(handlers, kind) :
       LET call == CallChain(handlers, kind, rets)
       IN last' = [NoLast EXCEPT !.op = op, !.kind = kind, !.invoked = call.invoked,
                                 !.returns = call.returns, !.result = call.result,
                                 !.fault = call.fault, !.thrown = call.thrown]
  /\ UNCHANGED <<viewReady, handlers, requested, eventMap, docId, click,
                 mousedown, mouseover, listeners, throwers>>

Focus == PlainDispatch("focus", "focus")

Blur == PlainDispatch("blur", "blur")

\* isInteracting() without the mouseover test.
IsInteractingDownOnly(md, mo) == md

\* isInteracting()
IsInteracting(md, mo) == md /\ mo

\* startMouseover() that attaches no page listener.
StartMouseoverNoListener(md, mo, ls) ==
  [mouseover |-> TRUE, mousedown |-> TRUE, listeners |-> ls, attached |-> FALSE]

\* startMouseover() without the early return: a listener on every mousedown.
StartMouseoverAlwaysAttach(md, mo, ls) ==
  [mouseover |-> TRUE, mousedown |-> TRUE, listeners |-> ls + 1, attached |-> TRUE]

\* startMouseover()
StartMouseover(md, mo, ls) ==
  [mouseover |-> TRUE,
   mousedown |-> TRUE,
   listeners |-> IF md THEN ls ELSE ls + 1,
   attached |-> ~md]

\* endMouseover() without the early return: a refresh on every call.
EndMouseoverAlwaysRefresh(md) ==
  [mousedown |-> FALSE, refresh |-> 1]

\* endMouseover()
EndMouseover(md) ==
  [mousedown |-> FALSE, refresh |-> IF md THEN 1 ELSE 0]

\* Page listeners that are removed without calling endMouseover.
RunListenersNoEnd(md, ls) ==
  [mousedown |-> md, refresh |-> 0]

\* A mouseup reaches the page: every pending one-shot listener runs
\* endMouseover once and is gone.
RunListeners(md, ls) ==
  IF ls > 0 THEN EndMouseover(md) ELSE [mousedown |-> md, refresh |-> 0]

\* mouseenter / mouseleave: this.mouseover = value
SetMouseover(value) == value

\* A dispatch that sets the flags to md, mo, ls and then calls its chain.
FlagDispatch(op, kind, md, mo, ls, refresh, attached) ==
  /\ mousedown' = md
  /\ mouseover' = mo
  /\ listeners' = ls
  /\ \E rets \in RetChoices(handlers, kind) :
       LET call == CallChain(handlers, kind, rets)
       IN last' = [NoLast EXCEPT !.op = op, !.kind = kind, !.invoked = call.invoked,
                                 !.returns = call.returns, !.result = call.result,
                                 !.refresh = refresh, !.attached = attached,
                                 !.thrown = call.thrown]
  /\ UNCHANGED <<viewReady, handlers, requested, eventMap, docId, click,
                 throwers>>

MouseDown ==
  /\ viewReady
  /\ Idle
  /\ mousedown \/ listeners < MaxListeners
  /\ LET s == StartMouseover(mousedown, mouseover, listeners)
     IN FlagDispatch("mousedown", "mousedown", s.mousedown, s.mouseover, s.listeners,
                     0, s.attached)

\* A mouseup inside the editor: the editor's handler runs, then the event
\* bubbles to the page unless something stops its propagation.
MouseUp ==
  /\ viewReady
  /\ Idle
  /\ \E propagates \in BOOLEAN :
       LET e == EndMouseover(mousedown)
           l == IF propagates THEN RunListeners(e.mousedown, listeners)
                ELSE [mousedown |-> e.mousedown, refresh |-> 0]
       IN FlagDispatch("mouseup", "mouseup", l.mousedown, mouseover,
                       IF propagates THEN 0 ELSE listeners,
                       e.refresh + l.refresh, FALSE)

\* A mouseup on the page outside the editor: only the page listeners see it.
PageMouseUp ==
  /\ viewReady
  /\ Idle
  /\ LET l == RunListeners(mousedown, listeners)
     IN /\ mousedown' = l.mousedown
        /\ listeners' = 0
        /\ last' = [NoLast EXCEPT !.op = "pageMouseUp", !.refresh = l.refresh]
  /\ UNCHANGED <<viewReady, handlers, requested, eventMap, docId, click, mouseover,
                 throwers>>

MouseLeave ==
  /\ viewReady
  /\ Idle
  /\ FlagDispatch("mouseleave", "mouseleave", mousedown, SetMouseover(FALSE), listeners,
                  0, FALSE)

MouseEnter ==
  /\ viewReady
  /\ Idle
  /\ FlagDispatch("mouseenter", "mouseenter", mousedown, SetMouseover(TRUE), listeners,
                  0, FALSE)

\* A helper call: isInteracting().
QueryInteracting ==
  /\ viewReady
  /\ Idle
  /\ last' = [NoLast EXCEPT !.op = "isInteracting",
                            !.result = IsInteracting(mousedown, mouseover)]
  /\ UNCHANGED <<viewReady, handlers, requested, eventMap, docId, click,
                 mousedown, mouseover, listeners, throwers>>

(***************************************************************************)
(* createMouseEventHandler: mouseover, mouseout, contextmenu.              *)
(***************************************************************************)
\* The marks of a hover/contextmenu payload: filled only when inside > -1.
MouseMarks(d, pos, inside) ==
  IF inside > -1 THEN MarkRangesAt(d, pos) ELSE {}

\* getMark(markType) of a hover/contextmenu payload.
MouseGetMark(ranges, markType) ==
  IF markType \notin SchemaMarks THEN [outcome |-> "fault", error |-> "lookup"]
  ELSE FindMark(ranges, markType)

\* nodes.find(({ node }) => node.type === type): the index of the entry the
\* search stops at, a match or an entry without a node (0: it ran through).
FindStop(d, nodes, nodeType) ==
  LET stops == {i \in DOMAIN nodes :
                  \/ nodes[i].node = Undefined
                  \/ d[nodes[i].node].type = nodeType}
  IN IF stops = {} THEN 0 ELSE CHOOSE i \in stops : \A j \in stops : i <= j

\* getNode(nodeType) of a hover/contextmenu payload: the invariant on the
\* type, then the search of nodes, which reads node.type of every entry up
\* to the match and so throws a TypeError at an entry whose node is undefined.
MouseGetNode(d, nodes, nodeType) ==
  LET k == FindStop(d, nodes, nodeType)
  IN IF nodeType \notin SchemaNodes THEN [outcome |-> "fault", error |-> "lookup"]
     ELSE IF k = 0 THEN [outcome |-> "nothing"]
     ELSE IF nodes[k].node = Undefined THEN [outcome |-> "fault", error |-> "type"]
     ELSE [outcome |-> "match", node |-> nodes[k].node, pos |-> nodes[k].pos,
           isRoot |-> nodes[1].node = nodes[k].node]

\* getPositionFromEvent found no position.
NotFound == [found |-> FALSE, pos |-> -1, inside |-> -1]

\* The `inside` a position may come with: the position of the innermost
\* node the coordinate is in, or -1 when it is in none (a position at the
\* top level of the document).
InsideChoices(d, pos) ==
  LET rp == Resolve(d, pos)
  IN IF Depth(rp) >= 1 THEN {Before(rp, Depth(rp))}
     ELSE {-1} \cup (IF NodeAfter(d, rp) # Undefined THEN {pos} ELSE {})

\* What getPositionFromEvent may return for document d.
EventPositions(d) ==
  {NotFound} \cup
  UNION {{[found |-> TRUE, pos |-> p, inside |-> i] : i \in InsideChoices(d, p)} :
           p \in 0..DocSize(d)}

\* A handler that goes on without a position.
MissIgnored(ep) == FALSE

\* if (!eventPosition) return false
Miss(ep) == ~ep.found

CreateMouseEventHandler(op, kind, hovering) ==
  /\ viewReady
  /\ Idle
  /\ \E ep \in EventPositions(Doc), rets \in RetChoices(handlers, kind) :
       IF Miss(ep)
       THEN last' = [NoLast EXCEPT !.op = op, !.kind = kind, !.hovering = hovering]
       ELSE LET nodes == BuildNodes(Doc, ep.pos, ep.inside)
                call == CallChain(handlers, kind, rets)
            IN last' = [NoLast EXCEPT !.op = op, !.kind = kind, !.hovering = hovering,
                          !.found = ep.found, !.pos = ep.pos, !.inside = ep.inside,
                          !.nodes = nodes,
                          !.marks = MouseMarks(Doc, ep.pos, ep.inside),
                          !.invoked = call.invoked,
                          !.returns = call.returns, !.result = call.result,
                          !.prevented = call.result, !.fault = call.fault,
                          !.thrown = call.thrown]
  /\ UNCHANGED <<viewReady, handlers, requested, eventMap, docId, click,
                 mousedown, mouseover, listeners, throwers>>

\* A handler invoked by the last mouseover, mouseout or contextmenu calls
\* getNode or getMark of the props it was given.
MouseQuery ==
  /\ last.op \in {"mouseover", "mouseout", "contextmenu"}
  /\ last.invoked # <<>>
  /\ last.query = NoQuery
  /\ \/ \E t \in QueriedNodeTypes :
          last' = [last EXCEPT !.query =
                     Answer("getNode", last.kind, t, MouseGetNode(Doc, last.nodes, t))]
     \/ \E t \in QueriedMarkTypes :
          last' = [last EXCEPT !.query =
                     Answer("getMark", last.kind, t, MouseGetMark(last.marks, t))]
  /\ UNCHANGED <<viewReady, handlers, requested, eventMap, docId, click,
                 mousedown, mouseover, listeners, throwers>>

MouseOut == CreateMouseEventHandler("mouseout", "hover", FALSE)

MouseOver == CreateMouseEventHandler("mouseover", "hover", TRUE)

ContextMenu == CreateMouseEventHandler("contextmenu", "contextmenu", FALSE)

(***************************************************************************)
(* Specifications.                                                         *)
(***************************************************************************)
OnView == OnViewOver(EventKinds)

AddHandler == AddHandlerOver(EventKinds)

Next ==
  \/ OnView
  \/ AddHandler
  \/ ClickFirst
  \/ ClickBubble
  \/ Focus
  \/ Blur
  \/ MouseDown
  \/ MouseUp
  \/ PageMouseUp
  \/ MouseLeave
  \/ MouseEnter
  \/ QueryInteracting
  \/ MouseOut
  \/ MouseOver
  \/ ContextMenu

Spec == Init /\ [][Next]_vars

\* The editor under clicks alone: handlers are registered for click and
\* clickMark, the host delivers clicks.
OnViewClick == OnViewOver(ClickKinds)

AddHandlerClick == AddHandlerOver(ClickKinds)

NextClick ==
  \/ OnViewClick
  \/ AddHandlerClick
  \/ ClickFirst
  \/ ClickBubble

SpecClick == Init /\ [][NextClick]_vars

\* The editor under pointer events alone: the interaction flags.
OnViewPointer == OnViewOver(PointerKinds)

AddHandlerPointer == AddHandlerOver(PointerKinds)

NextPointer ==
  \/ OnViewPointer
  \/ AddHandlerPointer
  \/ MouseDown
  \/ MouseUp
  \/ PageMouseUp
  \/ MouseLeave
  \/ MouseEnter
  \/ QueryInteracting

SpecPointer == Init /\ [][NextPointer]_vars

\* The editor under mouseover, mouseout and contextmenu alone.
OnViewMouse == OnViewOver(MouseKinds)

AddHandlerMouse == AddHandlerOver(MouseKinds)

NextMouse ==
  \/ OnViewMouse
  \/ AddHandlerMouse
  \/ MouseOut
  \/ MouseOver
  \/ ContextMenu

SpecMouse == Init /\ [][NextMouse]_vars

\* Clicks, with handlers that use the state they are given.
NextClickPayload ==
  \/ NextClick
  \/ ClickQuery

SpecClickPayload == Init /\ [][NextClickPayload]_vars

\* Clicks, with handlers that may throw.
AddThrowingHandlerClick == AddThrowingHandlerOver(ClickKinds)

NextClickFault ==
  \/ NextClick
  \/ AddThrowingHandlerClick

SpecClickFault == Init /\ [][NextClickFault]_vars

\* Pointer events, with handlers that may throw.
AddThrowingHandlerPointer == AddThrowingHandlerOver(PointerKinds)

NextPointerFault ==
  \/ NextPointer
  \/ AddThrowingHandlerPointer

SpecPointerFault == Init /\ [][NextPointerFault]_vars

\* Mouseover, mouseout and contextmenu, with handlers that use their props.
NextMousePayload ==
  \/ NextMouse
  \/ MouseQuery

SpecMousePayload == Init /\ [][NextMousePayload]_vars

\* Every kind of dispatch together, the extensions exposing focus
\* handlers: the flags and the dedup cache under events of other kinds.
OnViewFocus == OnViewOver({"focus"})

NextFrame ==
  \/ OnViewFocus
  \/ ClickFirst
  \/ ClickBubble
  \/ Focus
  \/ Blur
  \/ MouseDown
  \/ MouseUp
  \/ PageMouseUp
  \/ MouseLeave
  \/ MouseEnter
  \/ MouseOut
  \/ MouseOver
  \/ ContextMenu

SpecFrame == Init /\ [][NextFrame]_vars

(***************************************************************************)
(* Properties.                                                             *)
(***************************************************************************)
IsClick == last.op = "handleClickOn"

\* C1: on every click notification the clickMark chain is run exactly when
\* the notification is the first one of its raw event, whatever other raw
\* events the dedup map already holds, and the click chain is run on every
\* notification; so an event notified n >= 1 times ran the clickMark chain
\* once and the click chain n times.
C1_ClickMarkOncePerEvent ==
  IsClick =>
    /\ last.markRun = (click.notified = 1)
    /\ last.clickRun
    /\ click.markRuns = 1
    /\ click.clickRuns = click.notified

\* The second raw event is on its second notification, with the first raw
\* event in the dedup map and a clickMark handler registered.
C1_Witness ==
  /\ IsClick
  /\ last.event = 2
  /\ click.notified = 2
  /\ ~last.markRun
  /\ 1 \in eventMap
  /\ Len(handlers["clickMark"]) > 0

\* C2: a click whose path from the clicked node to the root has d nodes
\* (d = 3 for root -> paragraph -> text) is notified once per node of that
\* path, innermost first, runs the click chain on each of the d
\* notifications and the clickMark chain once, and carries direct = true on
\* the first notification only.
C2_ClickPerAncestor ==
  IsClick =>
    /\ last.direct = (click.notified = 1)
    /\ last.node = PathToRoot(Doc, click.target)[click.notified]
    /\ click.clickRuns = click.notified
    /\ click.path = <<>> =>
         /\ click.notified = Len(PathToRoot(Doc, click.target))
         /\ click.clickRuns = click.depth
         /\ click.markRuns = 1

\* The click on the text of doc(paragraph(text, ..)) has reached the root.
C2_Witness ==
  /\ IsClick
  /\ click.path = <<>>
  /\ click.depth = 3
  /\ Doc[click.target].type = "text"
  /\ last.node = Root
  /\ ~last.direct
  /\ click.clickRuns = 3
  /\ click.markRuns = 1

\* C3: the click handlers run in ascending priority, ties in registration
\* order, and the chain stops at the first handler that returns true: every
\* invoked handler but the last returned false, a handler is left out only
\* after a true result, and a true result makes handleClickOn return true.
C3_ClickEarlyReturn ==
  IsClick =>
    LET chain == handlers["click"]
        n == Len(last.invoked)
    IN /\ n <= Len(chain)
       /\ \A i \in 1..n : last.invoked[i] = chain[i].id
       /\ \A i, j \in 1..Len(chain) :
            i < j => \/ chain[i].prio < chain[j].prio
                     \/ chain[i].prio = chain[j].prio /\ chain[i].id < chain[j].id
       /\ \A i \in 1..(n - 1) : ~last.returns[i]
       /\ n < Len(chain) => n > 0 /\ last.returns[n]
       /\ (\E i \in 1..n : last.returns[i]) => last.result

\* Two click handlers, the one of priority 1 registered after the one of
\* priority 2; the priority-1 handler returned true and ran alone.
C3_Witness ==
  /\ IsClick
  /\ handlers["click"] = <<[id |-> 2, prio |-> 1], [id |-> 1, prio |-> 2]>>
  /\ last.invoked = <<2>>
  /\ last.returns = <<TRUE>>
  /\ last.result

\* The operations that call the chain of last.kind.
ChainCalled ==
  \/ last.op \in {"focus", "blur", "mousedown", "mouseup", "mouseleave",
                  "mouseenter", "handleClickOn"}
  \/ last.op \in {"mouseover", "mouseout", "contextmenu"} /\ last.found

\* C4: focus, blur, mousedown, mouseup, mouseleave and click are
\* early-return (no handler is invoked after the first true result, and a
\* handler is left out only after one); mouseenter, contextmenu, hover and
\* clickMark are run-all (every handler given for the kind is invoked on
\* each dispatch).
C4_PolicyOfEachKind ==
  LET n == Len(last.invoked)
  IN /\ (ChainCalled /\ last.kind \in {"focus", "blur", "mousedown", "mouseup",
                                       "mouseleave", "click"}) =>
          /\ \A i \in 1..(n - 1) : ~last.returns[i]
          /\ n < requested[last.kind] => n > 0 /\ last.returns[n]
     /\ (ChainCalled /\ last.kind \in {"mouseenter", "contextmenu", "hover"}) =>
          n = requested[last.kind]
     /\ (IsClick /\ last.markRun) =>
          Len(last.markInvoked) = requested["clickMark"]

\* C5: every handler given for hover is invoked on each mouseover
\* (hovering = true) and each mouseout (hovering = false) whose coordinate
\* resolves to a position.
C5_HoverHandlersInvoked ==
  (last.op \in {"mouseover", "mouseout"} /\ last.found) =>
    /\ Len(last.invoked) = requested["hover"]
    /\ last.hovering = (last.op = "mouseover")

\* C6: isInteracting() is false before any event, true after a mousedown
\* dispatch, and false after a mouseup, be it the editor's own or one the
\* page alone sees.
C6_InteractingTransitions ==
  /\ ~viewReady => ~IsInteracting(mousedown, mouseover)
  /\ last.op = "mousedown" => IsInteracting(mousedown, mouseover)
  /\ last.op \in {"mouseup", "pageMouseUp"} => ~IsInteracting(mousedown, mouseover)

\* The button went down in the editor, the pointer left it, and the mouseup
\* came on the page: the page listener cleared the flag and refreshed.
C6_Witness ==
  /\ last.op = "pageMouseUp"
  /\ last.refresh = 1
  /\ ~mouseover
  /\ ~mousedown
  /\ listeners = 0

\* C7: isInteracting() returns the interacting flag AND the pointer-over
\* flag; a mouseleave dispatch clears the pointer-over flag and a mouseenter
\* dispatch sets it, neither touching the interacting flag, so that
\* isInteracting() is false after the first and equal to the interacting
\* flag after the second.
C7_InteractingIsDownAndOver ==
  [][/\ last'.op = "isInteracting" => last'.result = (mousedown' /\ mouseover')
     /\ last'.op = "mouseleave" =>
          /\ ~mouseover'
          /\ mousedown' = mousedown
          /\ ~IsInteracting(mousedown', mouseover')
     /\ last'.op = "mouseenter" =>
          /\ mouseover'
          /\ mousedown' = mousedown
          /\ IsInteracting(mousedown', mouseover') = mousedown]_vars

\* isInteracting() is asked while the button is held and the pointer is out.
C7_Witness ==
  /\ last.op = "isInteracting"
  /\ ~last.result
  /\ mousedown
  /\ ~mouseover

\* A mouseover, mouseout or contextmenu whose position is inside a node.
MouseHit ==
  /\ last.op \in {"mouseover", "mouseout", "contextmenu"}
  /\ last.found
  /\ last.inside > -1

\* Node n is a container of position pos: pos lies between its tokens.
Contains(d, n, pos) ==
  /\ d[n].len = 0
  /\ ~d[n].leaf
  /\ NodeStart(d, n) + 1 <= pos
  /\ pos <= NodeStart(d, n) + NodeSize(d, n) - 1

\* The containers of pos: the root and the ancestors down to the innermost.
Containers(d, pos) == {n \in 1..Len(d) : Contains(d, n, pos)}

\* The innermost container of pos: the node at the resolved depth.
Container(d, pos) ==
  LET cs == Containers(d, pos)
  IN CHOOSE n \in cs : \A m \in cs : NodeStart(d, m) <= NodeStart(d, n)

\* The node right after pos in its container (a text node pos is inside
\* counts, by its rest), Undefined when pos is the container's end.
Following(d, pos) ==
  LET ct == Container(d, pos)
      after == {c \in 1..Len(d) :
                  /\ ParentOf(d, c) = ct
                  /\ \/ NodeStart(d, c) = pos
                     \/ d[c].len > 0 /\ NodeStart(d, c) < pos
                                     /\ pos < NodeStart(d, c) + d[c].len}
  IN IF after = {} THEN Undefined ELSE CHOOSE c \in after : TRUE

C9_NodeAfterOrContainer ==
  MouseHit =>
    last.nodes[1].node =
      IF Following(Doc, last.pos) # Undefined
      THEN Following(Doc, last.pos) ELSE Container(Doc, last.pos)

\* C10: after onView the registry holds nothing when the global exclusion
\* flag is set, and otherwise exactly one handler per key that
\* createEventHandlers of an extension with the method and without its own
\* exclusion flag returns, under that key.
C10_AutoRegistered ==
  last.op = "onView" =>
    LET exts == last.config
        expected ==
          IF last.exclude THEN {}
          ELSE {e \in [owner : DOMAIN exts, kind : EventKinds] :
                  /\ exts[e.owner].method
                  /\ ~exts[e.owner].exclude
                  /\ \E j \in DOMAIN exts[e.owner].keys : exts[e.owner].keys[j] = e.kind}
        registered ==
          {[owner |-> last.added[a].owner, kind |-> last.added[a].kind] :
             a \in {b \in DOMAIN last.added :
                      /\ last.added[b].kind \in HandlerKeys
                      /\ \E i \in DOMAIN handlers[last.added[b].kind] :
                           handlers[last.added[b].kind][i].id = last.added[b].id}}
    IN /\ registered = expected
       /\ SumOver([k \in HandlerKeys |-> Len(handlers[k])], HandlerKeys)
            = Cardinality(expected)

\* A handler has called getNode / getMark of its payload.
AskedNode == last.query.fn = "getNode"

AskedMark == last.query.fn = "getMark"

\* C11: in the click, hover and contextmenu payloads, getNode with a type
\* name the schema does not have raises a fault, and with a type the schema
\* has it returns the match or nothing, never a fault.
C11_GetNodeFaultsOnlyOnUnknownType ==
  AskedNode =>
    /\ last.query.type \notin SchemaNodes => last.query.outcome = "fault"
    /\ last.query.type \in SchemaNodes => last.query.outcome \in {"match", "nothing"}

\* C12: in every payload that offers getMark (clickMark, click on each
\* notification, hover, contextmenu), getMark with a mark type name the
\* schema does not have raises a fault and never returns silently.
C12_GetMarkFaultsOnUnknownType ==
  (AskedMark /\ last.query.type \notin SchemaMarks) => last.query.outcome = "fault"

\* C13: a mouseover, mouseout or contextmenu whose coordinate maps to no
\* position invokes no handler, returns false and prevents nothing.
C13_MissIsSilent ==
  (last.op \in {"mouseover", "mouseout", "contextmenu"} /\ ~last.found) =>
    /\ last.invoked = <<>>
    /\ ~last.result
    /\ ~last.prevented
    /\ ~last.fault

\* A contextmenu without a position, with a contextmenu handler registered.
C13_Witness ==
  /\ last.op = "contextmenu"
  /\ ~last.found
  /\ Len(handlers["contextmenu"]) > 0
  /\ last.invoked = <<>>

\* C14: a throwing handler leaves the dedup map and the flags as a normal
\* dispatch does: after a click notification in which a clickMark or click
\* handler threw the raw event is stored, so that no later notification of
\* it runs the clickMark chain; after a mousedown, mouseup, mouseenter or
\* mouseleave whose handler threw the two flags are what the event makes them.
C14_ThrowKeepsStateConsistent ==
  /\ (IsClick /\ last.thrown) => last.event \in eventMap
  /\ IsClick => last.markRun = (click.notified = 1)
  /\ (last.op = "mousedown" /\ last.thrown) => (mousedown /\ mouseover)
  /\ (last.op = "mouseup" /\ last.thrown) => ~mousedown
  /\ (last.op = "mouseenter" /\ last.thrown) => mouseover
  /\ (last.op = "mouseleave" /\ last.thrown) => ~mouseover

\* The marks active at position pos: those of the content that starts there.
ActiveMarks(d, pos) ==
  LET f == Following(d, pos)
  IN IF f = Undefined THEN {} ELSE d[f].marks

\* The ranges are one per mark active at pos, each around pos.
RangesCover(ranges, d, pos) ==
  LET active == ActiveMarks(d, pos)
  IN /\ {r.mark : r \in ranges} = active
     /\ Cardinality(ranges) = Cardinality(active)
     /\ \A r \in ranges : r.from <= pos /\ pos < r.to

IsMouse == last.op \in {"mouseover", "mouseout", "contextmenu"} /\ last.found

\* C15, as claimed: every payload, the click payload of every notification
\* included, carries one mark range per mark active at the hit point, and
\* its getMark finds the range of an active mark.
C15_MarkRangesOnEveryNotification ==
  /\ (IsClick \/ IsMouse) => RangesCover(last.marks, Doc, last.pos)
  /\ (AskedMark /\ last.query.type \in SchemaMarks) =>
       (last.query.outcome = "match") = (last.query.type \in ActiveMarks(Doc, last.pos))

\* C15, amended: the hover/contextmenu payload of a position inside a node
\* and the clickMark and click payloads of the first notification of a raw
\* event carry one mark range per mark active at the hit point, and their
\* getMark finds the range of an active mark; the click payload of every
\* later notification of the event carries no mark range and its getMark
\* returns nothing; so does a hover/contextmenu payload with inside = -1.
C15_MarkRangesOnFirstNotification ==
  LET filled == \/ IsClick /\ click.notified = 1
                \/ IsMouse /\ last.inside > -1
  IN /\ (IsClick \/ IsMouse) =>
          IF filled THEN RangesCover(last.marks, Doc, last.pos) ELSE last.marks = {}
     /\ (AskedMark /\ last.query.type \in SchemaMarks) =>
          IF filled
          THEN (last.query.outcome = "match")
                 = (last.query.type \in ActiveMarks(Doc, last.pos))
          ELSE last.query.outcome = "nothing"

\* The click on the bold text was notified for the paragraph, and the click
\* handler asked for the bold mark and got nothing; an earlier click ran its
\* first notification with the bold range in its payload.
C15_Witness ==
  /\ IsClick
  /\ click.notified = 2
  /\ "bold" \in ActiveMarks(Doc, last.pos)
  /\ last.marks = {}
  /\ last.query.fn = "getMark"
  /\ last.query.type = "bold"
  /\ last.query.outcome = "nothing"

\* A clickMark handler invoked by the last notification threw.
MarkThrew ==
  \E i \in DOMAIN last.markInvoked :
    [kind |-> "clickMark", id |-> last.markInvoked[i]] \in throwers

\* C16: within one click notification the clickMark chain, when it runs,
\* is called before the click chain (a throw in it leaves no click handler
\* invoked, while a throw of a click handler comes after the clickMark
\* handlers have all run); the click chain is called on every notification
\* whose clickMark chain did not throw, whatever the clickMark handlers
\* returned; and the value returned to the host is true exactly when a
\* handler of the clickMark chain run in this notification or of the click
\* chain returned true.
C16_ClickAfterClickMark ==
  IsClick =>
    /\ last.order = IF MarkThrew THEN <<"clickMark">>
                    ELSE IF last.markRun THEN <<"clickMark", "click">>
                    ELSE <<"click">>
    /\ last.clickRun = ~MarkThrew
    /\ MarkThrew => last.invoked = <<>>
    /\ (last.markRun /\ ~MarkThrew) => Len(last.markInvoked) = Len(handlers["clickMark"])
    /\ ~last.thrown =>
         last.result = \/ \E i \in DOMAIN last.markReturns : last.markReturns[i]
                       \/ \E i \in DOMAIN last.returns : last.returns[i]

\* A clickMark handler returned true, the click handler was invoked all the
\* same and returned false, and the host was given true.
C16_Witness ==
  /\ IsClick
  /\ \E i \in DOMAIN last.markReturns : last.markReturns[i]
  /\ last.invoked # <<>>
  /\ \A i \in DOMAIN last.returns : ~last.returns[i]
  /\ last.result

\* C17: a mousedown dispatch attaches a one-shot page mouseup listener
\* exactly when the interacting flag was false before it, and leaves the
\* flag true either way; a listener is gone once a mouseup has reached the
\* page, so that it runs at most once, and nothing else removes or adds one.
C17_ListenerOnlyWhenIdle ==
  [][/\ last'.op = "mousedown" =>
          /\ mousedown'
          /\ last'.attached = ~mousedown
          /\ listeners' = IF mousedown THEN listeners ELSE listeners + 1
     /\ last'.op = "pageMouseUp" => listeners' = 0
     /\ last'.op = "mouseup" => listeners' \in {0, listeners}
     /\ last'.op \notin {"mousedown", "mouseup", "pageMouseUp"} =>
          listeners' = listeners]_vars

\* A mousedown came while the flag was already true: no listener was added
\* to the one pending.
C17_Witness ==
  /\ last.op = "mousedown"
  /\ ~last.attached
  /\ mousedown
  /\ listeners = 1

\* C19: emptyUpdate is called once by a step that takes the interacting
\* flag from true to false and by no other step; a mouseup, of the editor
\* or of the page, that finds the flag false changes no flag and refreshes
\* nothing, and the page listener that fires after the editor's mouseup
\* handler has cleared the flag adds no second refresh.
C19_RefreshOncePerRelease ==
  [][/\ last'.refresh = IF mousedown /\ ~mousedown' THEN 1 ELSE 0
     /\ (last'.op \in {"mouseup", "pageMouseUp"} /\ ~mousedown) =>
          /\ ~mousedown'
          /\ mouseover' = mouseover
          /\ last'.refresh = 0]_vars

\* The editor's mouseup cleared the flag and the event went on to the page,
\* where the pending listener fired: one refresh in all.
C19_Witness ==
  /\ last.op = "mouseup"
  /\ last.refresh = 1
  /\ ~mousedown
  /\ listeners = 0

\* C20: whenever the interacting flag is true a one-shot page mouseup
\* listener is pending, and a mouseup on the page leaves the flag false.
C20_InteractingHasListener ==
  /\ mousedown => listeners >= 1
  /\ last.op = "pageMouseUp" => ~mousedown

\* The flag is true with two listeners pending, one left over from a
\* mouseup that never reached the page, and the pointer is outside.
C20_Witness ==
  /\ mousedown
  /\ listeners = 2
  /\ ~mouseover

\* C18: a mouseover, mouseout or contextmenu whose position is not inside
\* any node (inside = -1) still has every handler given for its kind
\* invoked, with an empty node list and no mark range; when the position is
\* inside a node, the first entry of the node list is a node, the direct
\* match, at the hit position.
C18_EdgeStillDispatched ==
  /\ (last.op \in {"mouseover", "mouseout", "contextmenu"}
        /\ last.found /\ last.inside = -1) =>
       /\ ~last.fault
       /\ Len(last.invoked) = requested[last.kind]
       /\ last.nodes = <<>>
       /\ last.marks = {}
  /\ MouseHit =>
       /\ last.nodes # <<>>
       /\ last.nodes[1].node # Undefined
       /\ last.nodes[1].pos = last.pos

\* C21: a dispatch of focus, blur, click (a handleClickOn notification),
\* mouseover, mouseout or contextmenu leaves the interacting flag and the
\* pointer-over flag as they were, and a dispatch of mousedown, mouseup,
\* mouseenter, mouseleave, focus, blur, mouseover, mouseout or contextmenu
\* leaves the click dedup cache as it was.
C21_FrameOfEachDispatch ==
  [][/\ last'.op \in {"focus", "blur", "handleClickOn", "mouseover", "mouseout",
                      "contextmenu"} =>
          /\ mousedown' = mousedown
          /\ mouseover' = mouseover
     /\ last'.op \in {"mousedown", "mouseup", "mouseenter", "mouseleave", "focus",
                      "blur", "mouseover", "mouseout", "contextmenu"} =>
          eventMap' = eventMap]_vars

\* A focus handler ran while the button was held with the pointer over the
\* editor and a click was in the dedup cache: all three are still there.
C21_Witness ==
  /\ last.op = "focus"
  /\ last.invoked # <<>>
  /\ mousedown
  /\ mouseover
  /\ eventMap # {}
====
